---------------------------- MODULE Spec2Model ----------------------------
(***************************************************************************)
(* State-machine model of complete_pwnagotchi.py: the PwnagotchiAI brain   *)
(* (evaluate_target, select_target, learn_from_attack, get_ai_stats) and   *)
(* the CompletePwnagotchi orchestrator (main_loop, scan_networks,          *)
(* ai_auto_attack, launch_attack, the Flask handlers).                     *)
(*                                                                         *)
(* Threads: the main thread runs main_loop; the Flask server runs in a     *)
(* daemon thread and serves each request on a thread of its own, so        *)
(* handlers run concurrently with the loop and with each other.  The code  *)
(* takes no lock anywhere.  Interleaving is kept at the statements whose   *)
(* order another thread can observe: the AttackRecord append, the          *)
(* handshake append, the status assignment, the ledger append, the         *)
(* read and the write of each `+= 1` on success_patterns, and the read     *)
(* and the write of the ledger truncation.                                 *)
(*                                                                         *)
(* One handler thread is explored beside the main thread.                 *)
(*                                                                         *)
(* Not modelled: wall-clock timestamps of attack / handshake / last_seen   *)
(* (no decision reads them), the e-paper display, logging.                 *)
(***************************************************************************)
EXTENDS Integers, Sequences, FiniteSets, TLC

(***************************************************************************)
(* Bounds of the model.                                                    *)
(***************************************************************************)
MaxEpoch == 1      \* main_loop iterations explored
MaxAttacks == 2    \* launch_attack calls explored (all threads together)
MaxTicks == 1      \* changes of the wall-clock hour explored
MaxLedger == 5     \* ledger length of the scored network (ScoreSpec)
MaxCount == 10     \* greatest value of a pattern counter (ScoreSpec)

(***************************************************************************)
(* Program constants.                                                      *)
(***************************************************************************)
HistoryCap == 50   \* learn_from_attack: len(history) > 50 -> [-50:]

Main == "main"
Web == {"w1"}
Threads == {Main} \cup Web

Macs == {"m1", "m2"}

NoNet == [mac |-> "", ssid |-> "", channel |-> 0, signal |-> 0, encryption |-> ""]

\* current_network of parse_iwlist_output once its lines are read
Cell(mac, ssid, channel, signal, encryption) ==
    [mac |-> mac, ssid |-> ssid, channel |-> channel, signal |-> signal,
     encryption |-> encryption]

\* What one `iwlist wlan0 scan` can print, as the cells the parser builds.
\* A cell without ESSID keeps ssid = '' and the defaults of the parser.
FirstScan ==
    << Cell("m1", "netA", 1, -45, "WPA/WPA2"),
       Cell("m2", "", 0, -100, "Open") >>

ScanOutputs ==
    { FirstScan,
      << Cell("m2", "netB", 6, -60, "Open"),
         Cell("m1", "netA", 6, -85, "WPA/WPA2") >>,
      << Cell("m2", "netB", 1, -60, "WPA/WPA2"),
         Cell("m1", "netA", 1, -45, "WPA/WPA2") >> }

VARIABLES
    networks,           \* self.networks: dict in insertion order, as a sequence
    network_history,    \* ai.network_history: defaultdict(list), mac -> ledger
    success_patterns,   \* ai.success_patterns: defaultdict(int) in insertion order
    attacks,            \* self.attacks
    handshakes,         \* self.handshakes
    mood,               \* self.mood
    epoch,              \* self.epoch
    real_attacks_enabled, \* self.real_attacks_enabled (set once, check_monitor_mode)
    ticks,              \* hours elapsed since start: datetime.now().hour
    clock,              \* datetime.now() of AttemptRecords, a logical clock
    start,              \* where the exploration starts (epoch, attacks) and its budget
    appended,           \* history: per mac, the timestamps of all records appended
    pc,                 \* each thread's position
    net,                \* launch_attack's `network` argument (a dict reference)
    ai,                 \* launch_attack's `ai_controlled` argument
    att,                \* launch_attack's `attack`: index of the dict in self.attacks
    success,            \* launch_attack's `success`
    tmp,                \* key and value loaded by the first half of a `+= 1`
    cut,                \* the slice history[-50:] before it is assigned back
    req,                \* the request a handler thread serves
    resp,               \* the handler's return value
    before,             \* history: the shared state when the handler began
    faults              \* the "Main loop error" lines main_loop has logged

shared == << networks, network_history, success_patterns, attacks, handshakes,
             mood, epoch >>
vars == << networks, network_history, success_patterns, attacks, handshakes,
           mood, epoch, real_attacks_enabled, ticks, clock, start, appended,
           pc, net, ai, att, success, tmp, cut, req, resp, before, faults >>

(***************************************************************************)
(* Helpers on the insertion-ordered dicts.                                 *)
(***************************************************************************)
\* datetime.now().hour
CurrentHour == (23 + ticks) % 24

\* `mac in self.networks`
NetKeys(nets) == { nets[i].mac : i \in 1..Len(nets) }

NetIndex(nets, mac) == CHOOSE i \in 1..Len(nets) : nets[i].mac = mac

\* self.networks[mac]
NetOf(nets, mac) == nets[NetIndex(nets, mac)]

\* self.networks.setdefault(mac, network): a known mac keeps its old entry
NetPutKeep(nets, n) ==
    IF n.mac \in { nets[i].mac : i \in 1..Len(nets) } THEN nets ELSE Append(nets, n)

\* self.networks[mac] = network : an existing key keeps its position
NetPut(nets, n) ==
    IF n.mac \in NetKeys(nets)
    THEN [nets EXCEPT ![NetIndex(nets, n.mac)] = n]
    ELSE Append(nets, n)

\* a lookup that falls back to the first known network when mac is absent
LookupLoose(nets, mac) ==
    IF mac \in NetKeys(nets) THEN NetOf(nets, mac)
    ELSE IF Len(nets) > 0 THEN nets[1] ELSE NoNet

\* a lookup that lets through only what select_target's filter would
LookupEligible(nets, mac) ==
    IF mac \in NetKeys(nets)
          /\ NetOf(nets, mac).encryption # "Open"
          /\ NetOf(nets, mac).signal > -85
    THEN NetOf(nets, mac) ELSE NoNet

\* `if mac in self.networks: network = self.networks[mac]`; NoNet when absent
Lookup(nets, mac) == IF mac \in NetKeys(nets) THEN NetOf(nets, mac) ELSE NoNet

ChannelKey(c) == << "channel", c >>
HourKey(h) == << "hour", h >>

PatKeys(pat) == { pat[i].key : i \in 1..Len(pat) }

PatIndex(pat, k) == CHOOSE i \in 1..Len(pat) : pat[i].key = k

\* self.success_patterns.get(k, 0)
PatGet(pat, k) == IF k \in PatKeys(pat) THEN pat[PatIndex(pat, k)].n ELSE 0

\* the load of `self.success_patterns[k] += 1`: defaultdict.__missing__
\* inserts k with int() = 0 when it is absent
PatLoad(pat, k) ==
    IF k \in PatKeys(pat) THEN pat ELSE Append(pat, [key |-> k, n |-> 0])

\* the store of `self.success_patterns[k] += 1`
PatStore(pat, k, v) ==
    IF k \in PatKeys(pat)
    THEN [pat EXCEPT ![PatIndex(pat, k)].n = v]
    ELSE Append(pat, [key |-> k, n |-> v])

\* `mac in self.network_history` / self.network_history[mac] for reading
HistOf(hist, mac) == IF mac \in DOMAIN hist THEN hist[mac] ELSE << >>

\* self.network_history[mac] = h
HistPut(hist, mac, h) ==
    [m \in (DOMAIN hist) \cup {mac} |-> IF m = mac THEN h ELSE hist[m]]

Successes(h) == Cardinality({ i \in 1..Len(h) : h[i].success })

\* no cap: the first argument as it is
Uncapped(a, b) == a

Min(a, b) == IF a < b THEN a ELSE b

\* no clamp: the first argument as it is
Unclamped(a, b) == a

Max(a, b) == IF a > b THEN a ELSE b


(***************************************************************************)
(* PwnagotchiAI                                                            *)
(***************************************************************************)
\* the comparisons turned round: signal < -50, signal < -70
SignalTermBelow(signal) ==
    IF signal < -50 THEN 30 ELSE IF signal < -70 THEN 20 ELSE 10

\* if signal > -50: +30 / elif signal > -70: +20 / else: +10
SignalTerm(signal) ==
    IF signal > -50 THEN 30 ELSE IF signal > -70 THEN 20 ELSE 10

\* the test turned round: encryption == 'Open'
EncTermOpen(encryption) == IF encryption = "Open" THEN 25 ELSE 0

\* if network['encryption'] != 'Open': score += 25
EncTerm(encryption) == IF encryption # "Open" THEN 25 ELSE 0

\* evaluate_target(network), with the ledger, the pattern counters and the
\* hour it reads made explicit.  int(rate * 40) is floor(40 * s / n): the
\* float product truncates to the same integer for every n <= 52.
evaluate_target(network, hist, pat, hour) ==
    LET signalTerm == SignalTerm(network.signal)
        encTerm == EncTerm(network.encryption)
        h == HistOf(hist, network.mac)
        histTerm == IF Len(h) > 0 THEN (40 * Successes(h)) \div Len(h) ELSE 0
        channel_penalty == PatGet(pat, ChannelKey(network.channel))
        time_bonus == PatGet(pat, HourKey(hour))
        score == signalTerm + encTerm + histTerm
                   - Min(channel_penalty * 2, 15) + Min(time_bonus * 3, 20)
    IN  Max(score, 1)

\* what the defaultdict would hold had the read been `success_patterns[k]`
PatAfterSubscript(pat, k) == PatLoad(pat, k)

\* what self.success_patterns holds after `.get(k, 0)`: get never inserts
PatAfterGet(pat, k) == pat

\* self.success_patterns after evaluate_target(network) has read it
evaluate_effect(pat, network, hour) ==
    PatAfterGet(PatAfterGet(pat, ChannelKey(network.channel)), HourKey(hour))

\* the filter with the signal bound included: signal >= -85
EligibleLoose(n) == n.encryption # "Open" /\ n.signal >= -85

\* the filter of select_target
Eligible(n) == n.encryption # "Open" /\ n.signal > -85

\* candidates, in the order of networks.values()
Candidates(nets) == SelectSeq(nets, Eligible)

\* the last candidate with the greatest score (a sort that is not stable)
BestCandidateLast(cands, hist, pat, hour) ==
    LET sc(i) == evaluate_target(cands[i], hist, pat, hour)
        best == CHOOSE i \in 1..Len(cands) :
                    /\ \A j \in 1..Len(cands) : sc(j) <= sc(i)
                    /\ \A j \in (i + 1)..Len(cands) : sc(j) < sc(i)
    IN  cands[best]

\* scored_targets.sort(reverse=True, key=score)[0][1]: the sort is stable,
\* so the first candidate with the greatest score
BestCandidate(cands, hist, pat, hour) ==
    LET sc(i) == evaluate_target(cands[i], hist, pat, hour)
        best == CHOOSE i \in 1..Len(cands) :
                    /\ \A j \in 1..Len(cands) : sc(j) <= sc(i)
                    /\ \A j \in 1..(i - 1) : sc(j) < sc(i)
    IN  cands[best]

\* select_target(networks): explore says random.random() < exploration_rate,
\* pick is the index random.choice draws
select_target(nets, hist, pat, hour, explore, pick) ==
    IF Len(nets) = 0 THEN NoNet
    ELSE LET candidates == Candidates(nets) IN
         IF Len(candidates) = 0 THEN NoNet
         ELSE IF explore THEN candidates[((pick - 1) % Len(candidates)) + 1]
         ELSE BestCandidate(candidates, hist, pat, hour)

\* the AttemptRecord learn_from_attack builds
AttemptRecord(network, ok, now, hour) ==
    [timestamp |-> now, success |-> ok, handshake |-> ok,
     signal |-> network.signal, channel |-> network.channel, hour |-> hour]

\* self.network_history[mac][-50:]
KeepRecent(h) ==
    IF Len(h) > HistoryCap THEN SubSeq(h, Len(h) - HistoryCap + 1, Len(h)) ELSE h

NoKey == << "None", 0 >>

\* max(self.success_patterns.items(), key=lambda x: x[1])[0], "None" if empty:
\* max returns the first item with the greatest value
BestChannel(pat) ==
    IF Len(pat) = 0 THEN NoKey
    ELSE pat[CHOOSE i \in 1..Len(pat) :
                /\ \A j \in 1..Len(pat) : pat[j].n <= pat[i].n
                /\ \A j \in 1..(i - 1) : pat[j].n < pat[i].n].key

RECURSIVE Gcd(_, _)
Gcd(a, b) == IF b = 0 THEN a ELSE Gcd(b, a % b)

\* total_success / total_attacks * 100, kept exact as a fraction in lowest terms
SuccessRate(total_success, total_attacks) ==
    IF total_attacks > 0
    THEN LET g == Gcd(100 * total_success, total_attacks)
         IN  << (100 * total_success) \div g, total_attacks \div g >>
    ELSE << 0, 1 >>

RECURSIVE SumOver(_, _, _)
SumOver(f(_), hist, keys) ==
    IF keys = {} THEN 0
    ELSE LET k == CHOOSE x \in keys : TRUE
         IN  f(hist[k]) + SumOver(f, hist, keys \ {k})

get_ai_stats(hist, pat) ==
    LET total_attacks == SumOver(Len, hist, DOMAIN hist)
        total_success == SumOver(Successes, hist, DOMAIN hist)
    IN  [total_attacks |-> total_attacks,
         success_rate |-> SuccessRate(total_success, total_attacks),
         networks_learned |-> Cardinality(DOMAIN hist),
         best_channel |-> BestChannel(pat),
         exploration_rate |-> 30]

(***************************************************************************)
(* CompletePwnagotchi: the status surface's reads                          *)
(***************************************************************************)
\* get_status_data(); name, version and face are constants or derived from mood
get_status_data ==
    [mood |-> mood,
     epoch |-> epoch,
     networks_count |-> Len(networks),
     attacks_count |-> Len(attacks),
     handshakes_count |-> Len(handshakes),
     ai_stats |-> get_ai_stats(network_history, success_patterns),
     real_attacks |-> real_attacks_enabled]

\* api_networks(): every network with its live score, in table order
api_networks ==
    [i \in 1..Len(networks) |->
        [network |-> networks[i],
         ai_score |-> evaluate_target(networks[i], network_history,
                                      success_patterns, CurrentHour)]]

\* self.success_patterns after api_networks has scored every network
RECURSIVE ScoreAll(_, _, _)
ScoreAll(pat, nets, hour) ==
    IF Len(nets) = 0 THEN pat
    ELSE ScoreAll(evaluate_effect(pat, Head(nets), hour), Tail(nets), hour)

api_networks_effect == ScoreAll(success_patterns, networks, CurrentHour)

(***************************************************************************)
(* Initial states: CompletePwnagotchi.__init__, after which run() has      *)
(* started the web thread and entered main_loop (ColdInit); and a later    *)
(* state of a run, with a ledger at its cap (WarmInit).                    *)
(***************************************************************************)
NoReq == [kind |-> "none", mac |-> ""]
NoResp == [status |-> "none"]
NoTmp == [key |-> << "", 0 >>, n |-> 0]

ColdInit ==
    /\ networks = << >>
    /\ network_history = << >>
    /\ success_patterns = << >>
    /\ attacks = << >>
    /\ handshakes = << >>
    /\ mood = "learning"
    /\ epoch = 0
    /\ real_attacks_enabled \in BOOLEAN
    /\ ticks = 0
    /\ clock = 0
    /\ start = [attacks |-> 0, epoch |-> 0, budget |-> MaxAttacks,
                epochs |-> MaxEpoch]
    /\ appended = [m \in Macs |-> << >>]
    /\ pc = [t \in Threads |-> IF t = Main THEN "m_loop" ELSE "idle"]
    /\ net = [t \in Threads |-> NoNet]
    /\ ai = [t \in Threads |-> FALSE]
    /\ att = [t \in Threads |-> 0]
    /\ success = [t \in Threads |-> FALSE]
    /\ tmp = [t \in Threads |-> NoTmp]
    /\ cut = [t \in Threads |-> << >>]
    /\ req = [t \in Threads |-> NoReq]
    /\ resp = [t \in Threads |-> NoResp]
    /\ before = [t \in Threads |-> << >>]
    /\ faults = 0

\* A state the program reaches after its fourth epoch: the scans found m1,
\* four epochs have passed, the loop is back at its head, and HistoryCap
\* manual attacks on m1, all simulated and all failed, have been served one
\* after the other.
Warm == HistoryCap

WarmNet == FirstScan[1]

WarmFrom(nets, budget, epochs) ==
    /\ networks = nets
    /\ network_history =
          [m \in {WarmNet.mac} |->
             [i \in 1..Warm |-> AttemptRecord(WarmNet, FALSE, i, 23)]]
    /\ success_patterns = << >>
    /\ attacks = [i \in 1..Warm |->
                    [target |-> WarmNet.ssid, mac |-> WarmNet.mac,
                     type |-> "Manual", status |-> "failed",
                     ai_controlled |-> FALSE, ai_score |-> 0,
                     real_attack |-> FALSE]]
    /\ handshakes = << >>
    /\ mood = "learning"
    /\ epoch = 4
    /\ real_attacks_enabled = FALSE
    /\ ticks = 0
    /\ clock = Warm
    /\ start = [attacks |-> Warm, epoch |-> 4, budget |-> budget,
                epochs |-> epochs]
    /\ appended = [m \in Macs |-> IF m = WarmNet.mac THEN [i \in 1..Warm |-> i]
                                  ELSE << >>]
    /\ pc = [t \in Threads |-> IF t = Main THEN "m_loop" ELSE "idle"]
    /\ net = [t \in Threads |-> NoNet]
    /\ ai = [t \in Threads |-> FALSE]
    /\ att = [t \in Threads |-> 0]
    /\ success = [t \in Threads |-> FALSE]
    /\ tmp = [t \in Threads |-> NoTmp]
    /\ cut = [t \in Threads |-> << >>]
    /\ req = [t \in Threads |-> NoReq]
    /\ resp = [t \in Threads |-> NoResp]
    /\ before = [t \in Threads |-> << >>]
    /\ faults = 0

\* the warm state with the loop's usual number of epochs ahead
WarmStart(nets, budget) == WarmFrom(nets, budget, MaxEpoch)

\* the table after the second and then the first output of ScanOutputs
WarmTable == << Cell("m2", "netB", 6, -60, "Open"), WarmNet >>

WarmInit == WarmStart(WarmTable, MaxAttacks)

Init == ColdInit \/ WarmInit

\* the process lives until main_loop returns (the web thread is a daemon)
Running == pc[Main] # "stopped"

\* a response built is sent before anything else is explored
Ready == Running /\ \A t \in Web : pc[t] # "reply"

\* a thread is inside launch_attack
InLaunch(t) ==
    pc[t] \in {"la_begin", "la_attempt", "la_status", "la_learn", "lp_load",
               "lp_store", "la_trunc", "la_assign"}

\* launch_attack calls begun so far
Started == Len(attacks) + Cardinality({ t \in Threads : pc[t] = "la_begin" })

(***************************************************************************)
(* main_loop                                                               *)
(***************************************************************************)
\* an epoch counted twice, at the head of the iteration and at its end
NextEpochTwice(e) == e + 2

\* self.epoch += 1 (only the main thread writes self.epoch)
NextEpoch(e) == e + 1

\* while self.running: self.epoch += 1
MainLoop ==
    /\ Ready
    /\ pc[Main] = "m_loop"
    /\ epoch < start.epoch + start.epochs
    /\ epoch' = NextEpoch(epoch)
    /\ pc' = [pc EXCEPT ![Main] = "m_scan"]
    /\ UNCHANGED << networks, network_history, success_patterns, attacks,
                    handshakes, mood, real_attacks_enabled, start,
                    appended, ticks, clock, net, ai, att, success, tmp,
                    cut, req, resp, before >>
    /\ UNCHANGED faults

\* parse_iwlist_output: a cell is stored when its ssid is not empty
RECURSIVE parse_iwlist_output(_, _)
parse_iwlist_output(nets, cells) ==
    IF Len(cells) = 0 THEN nets
    ELSE parse_iwlist_output(
            IF Head(cells).ssid # "" THEN NetPut(nets, Head(cells)) ELSE nets,
            Tail(cells))

\* a scan that starts from an empty table instead of merging into the old
scan_networks_fresh(nets, ok, output) ==
    IF ok THEN parse_iwlist_output(<< >>, output) ELSE nets

\* scan_networks: returncode 0 and the output parsed, or nothing (a non-zero
\* return code, a timeout or another exception, logged)
scan_networks(nets, ok, output) ==
    IF ok THEN parse_iwlist_output(nets, output) ELSE nets

ScanNetworks ==
    /\ Ready
    /\ pc[Main] = "m_scan"
    /\ \E ok \in BOOLEAN, output \in ScanOutputs :
          networks' = scan_networks(networks, ok, output)
    /\ pc' = [pc EXCEPT ![Main] = "m_decide"]
    /\ UNCHANGED << network_history, success_patterns, attacks,
                    handshakes, mood, epoch, real_attacks_enabled, start,
                    appended, ticks, clock, net, ai, att, success, tmp,
                    cut, req, resp, before >>
    /\ UNCHANGED faults

\* the test without its first half: `if random.random() < 0.25`
LaunchesOnTrigger(target, trigger) == trigger

\* `if target and random.random() < 0.25`
Launches(target, trigger) == target # NoNet /\ trigger

\* ai_auto_attack: trigger says random.random() < 0.25
AiAutoAttack ==
    /\ Ready
    /\ pc[Main] = "m_decide"
    /\ \E explore \in BOOLEAN, pick \in 1..Cardinality(Macs), trigger \in BOOLEAN :
          LET target == IF Len(networks) = 0 THEN NoNet
                        ELSE select_target(networks, network_history,
                                 success_patterns, CurrentHour, explore, pick)
          IN  IF Launches(target, trigger) /\ Started < start.attacks + start.budget
              THEN /\ net' = [net EXCEPT ![Main] = target]
                   /\ ai' = [ai EXCEPT ![Main] = TRUE]
                   /\ pc' = [pc EXCEPT ![Main] = "la_begin"]
              ELSE /\ pc' = [pc EXCEPT ![Main] = "m_report"]
                   /\ UNCHANGED << net, ai >>
    /\ UNCHANGED << networks, network_history, success_patterns, attacks,
                    handshakes, mood, epoch, real_attacks_enabled, start,
                    appended, ticks, clock, att, success, tmp, cut, req,
                    resp, before >>
    /\ UNCHANGED faults

\* update_display, the progress log every fifth epoch, time.sleep(20)
Report ==
    /\ Ready
    /\ pc[Main] = "m_report"
    /\ pc' = [pc EXCEPT ![Main] = "m_loop"]
    /\ UNCHANGED << networks, network_history, success_patterns, attacks,
                    handshakes, mood, epoch, real_attacks_enabled, start,
                    appended, ticks, clock, net, ai, att, success, tmp,
                    cut, req, resp, before >>
    /\ UNCHANGED faults

\* a handler thread is about to insert a key into one of the AI's dicts: the
\* first ledger of a mac, or a counter that does not exist yet
InsertsKey(t) ==
    \/ pc[t] = "la_learn" /\ net[t].mac \notin DOMAIN network_history
    \/ pc[t] = "lp_load" /\ tmp[t].key \notin PatKeys(success_patterns)

\* a fault handler that leaves the loop, as the KeyboardInterrupt one does
AfterFaultBreak == "stopped"

\* after logger.error and time.sleep(5) the handler falls through to the
\* `while self.running` test, and nothing clears self.running
AfterFault == "m_loop"

\* main_loop's `except Exception`: the error is logged and, after
\* time.sleep(5), the loop is back at its head.  The exception the loop body
\* lets through is the RuntimeError of get_ai_stats in the progress log of
\* every fifth epoch, raised when a handler thread inserts a key while the
\* dict is iterated (scan_networks, update_display and launch_attack catch
\* their own).
LoopFault ==
    /\ Ready
    /\ pc[Main] = "m_report"
    /\ epoch % 5 = 0
    /\ \E t \in Web : InsertsKey(t)
    /\ faults' = faults + 1
    /\ pc' = [pc EXCEPT ![Main] = AfterFault]
    /\ UNCHANGED << networks, network_history, success_patterns, attacks,
                    handshakes, mood, epoch, real_attacks_enabled, start,
                    appended, ticks, clock, net, ai, att, success, tmp,
                    cut, req, resp, before >>

\* KeyboardInterrupt in the main thread: no `except Exception` catches it,
\* it unwinds to main_loop's handler, which breaks out of the loop
Interrupt ==
    /\ Ready
    /\ pc' = [pc EXCEPT ![Main] = "stopped"]
    /\ UNCHANGED << networks, network_history, success_patterns, attacks,
                    handshakes, mood, epoch, real_attacks_enabled, start,
                    appended, ticks, clock, net, ai, att, success, tmp,
                    cut, req, resp, before >>
    /\ UNCHANGED faults

\* the wall clock reaches the next hour (explored while the loop sleeps and
\* no attack is in flight)
Tick ==
    /\ Ready
    /\ ticks < MaxTicks
    /\ pc[Main] = "m_report"
    /\ \A t \in Threads : ~InLaunch(t)
    /\ ticks' = ticks + 1
    /\ UNCHANGED << networks, network_history, success_patterns, attacks,
                    handshakes, mood, epoch, real_attacks_enabled, start,
                    appended, clock, pc, net, ai, att, success, tmp, cut,
                    req, resp, before >>
    /\ UNCHANGED faults

(***************************************************************************)
(* launch_attack, one action per observable step                          *)
(***************************************************************************)
\* where launch_attack returns to: ai_auto_attack -> main_loop's display
\* step, or the handler's return
AfterLaunch(t) == IF t = Main THEN "m_report" ELSE "idle"

\* the AttackRecord, status 'launched'
AttackRecord(network, ai_controlled) ==
    [target |-> network.ssid,
     mac |-> network.mac,
     type |-> IF ai_controlled THEN "AI-Attack" ELSE "Manual",
     status |-> "launched",
     ai_controlled |-> ai_controlled,
     ai_score |-> IF ai_controlled
                  THEN evaluate_target(network, network_history,
                                       success_patterns, CurrentHour)
                  ELSE 0,
     real_attack |-> real_attacks_enabled]

\* the newest record of self.attacks instead of the one this call appended
LastAttack(t) == Len(attacks)

\* the dict `attack` refers to: the one this call appended
AttackRef(t) == att[t]

\* self.mood = 'attacking'; attack = {...}; self.attacks.append(attack)
LaBegin(t) ==
    /\ Ready
    /\ pc[t] = "la_begin"
    /\ mood' = "attacking"
    /\ attacks' = Append(attacks, AttackRecord(net[t], ai[t]))
    /\ att' = [att EXCEPT ![t] = Len(attacks) + 1]
    /\ pc' = [pc EXCEPT ![t] = "la_attempt"]
    /\ UNCHANGED << networks, network_history, success_patterns,
                    handshakes, epoch, real_attacks_enabled, start,
                    appended, ticks, clock, net, ai, success, tmp, cut,
                    req, resp, before >>
    /\ UNCHANGED faults

\* what the attempt can meet: simulated, random.random() < success_rate or
\* not; real, the capture file exists, or not, or a tool raises
AttemptOutcomes(real) ==
    IF real THEN {"captured", "nofile", "fault"} ELSE {"hit", "miss"}

\* launch_real_attack without its try/except: a failing tool raises
launch_real_attack_uncaught(outcome) ==
    IF outcome = "captured" THEN "true"
    ELSE IF outcome = "fault" THEN "raise" ELSE "false"

\* launch_real_attack: True when the capture file exists; every Exception
\* is caught and logged, and the function returns False
launch_real_attack(outcome) ==
    IF outcome = "captured" THEN "true" ELSE "false"

\* the value of `success`, or "raise" when an exception leaves the call
AttemptResult(real, outcome) ==
    IF real THEN launch_real_attack(outcome)
    ELSE IF outcome = "hit" THEN "true" ELSE "false"

\* the attempt returns; on success the handshake is appended, otherwise the
\* status becomes 'failed' and the mood follows.  An exception reaching
\* launch_attack's own handler is logged and the call returns.
LaAttempt(t) ==
    /\ Ready
    /\ pc[t] = "la_attempt"
    /\ \E outcome \in AttemptOutcomes(real_attacks_enabled) :
        LET r == AttemptResult(real_attacks_enabled, outcome) IN
        IF r = "raise"
        THEN /\ pc' = [pc EXCEPT ![t] = AfterLaunch(t)]
             /\ net' = [net EXCEPT ![t] = NoNet]
             /\ ai' = [ai EXCEPT ![t] = FALSE]
             /\ att' = [att EXCEPT ![t] = 0]
             /\ req' = [req EXCEPT ![t] = NoReq]
             /\ resp' = [resp EXCEPT ![t] = NoResp]
             /\ UNCHANGED << attacks, handshakes, mood, success >>
        ELSE IF r = "true"
        THEN /\ handshakes' = Append(handshakes,
                    [network |-> net[t].ssid, mac |-> net[t].mac,
                     ai_controlled |-> ai[t],
                     real_capture |-> real_attacks_enabled])
             /\ success' = [success EXCEPT ![t] = TRUE]
             /\ pc' = [pc EXCEPT ![t] = "la_status"]
             /\ UNCHANGED << attacks, mood, net, ai, att, req, resp >>
        ELSE /\ attacks' = [attacks EXCEPT ![AttackRef(t)].status = "failed"]
             /\ mood' = IF ai[t] THEN "thinking" ELSE "learning"
             /\ success' = [success EXCEPT ![t] = FALSE]
             /\ pc' = [pc EXCEPT ![t] = "la_learn"]
             /\ UNCHANGED << handshakes, net, ai, att, req, resp >>
    /\ UNCHANGED << networks, network_history, success_patterns, epoch,
                    real_attacks_enabled, start, appended, ticks, clock,
                    tmp, cut, before >>
    /\ UNCHANGED faults

\* attack['status'] = 'handshake_captured'; self.mood = 'excited'
LaStatus(t) ==
    /\ Ready
    /\ pc[t] = "la_status"
    /\ attacks' = [attacks EXCEPT ![AttackRef(t)].status = "handshake_captured"]
    /\ mood' = "excited"
    /\ pc' = [pc EXCEPT ![t] = "la_learn"]
    /\ UNCHANGED << networks, network_history, success_patterns,
                    handshakes, epoch, real_attacks_enabled, start,
                    appended, ticks, clock, net, ai, att, success, tmp,
                    cut, req, resp, before >>
    /\ UNCHANGED faults

(***************************************************************************)
(* learn_from_attack, called at the end of launch_attack                   *)
(***************************************************************************)
\* self.network_history[mac].append(result)
LearnAppend(t) ==
    /\ Ready
    /\ pc[t] = "la_learn"
    /\ clock' = clock + 1
    /\ appended' = [appended EXCEPT ![net[t].mac] = Append(@, clock + 1)]
    /\ network_history' =
          HistPut(network_history, net[t].mac,
                  Append(HistOf(network_history, net[t].mac),
                         AttemptRecord(net[t], success[t], clock + 1, CurrentHour)))
    /\ pc' = [pc EXCEPT ![t] = IF success[t] THEN "lp_load" ELSE "la_trunc"]
    /\ tmp' = [tmp EXCEPT ![t] =
                  IF success[t]
                  THEN [key |-> ChannelKey(net[t].channel), n |-> 0]
                  ELSE NoTmp]
    /\ UNCHANGED << networks, success_patterns, attacks, handshakes,
                    mood, epoch, real_attacks_enabled, start, ticks, net,
                    ai, att, success, cut, req, resp, before >>
    /\ UNCHANGED faults

\* the load of `self.success_patterns[key] += 1`, for the channel key and
\* then for the hour key
PatternLoad(t) ==
    /\ Ready
    /\ pc[t] = "lp_load"
    /\ success_patterns' = PatLoad(success_patterns, tmp[t].key)
    /\ tmp' = [tmp EXCEPT ![t].n = PatGet(success_patterns, tmp[t].key)]
    /\ pc' = [pc EXCEPT ![t] = "lp_store"]
    /\ UNCHANGED << networks, network_history, attacks, handshakes, mood,
                    epoch, real_attacks_enabled, start, appended, ticks,
                    clock, net, ai, att, success, cut, req, resp, before >>
    /\ UNCHANGED faults

\* the store of `self.success_patterns[key] += 1`; after the channel key
\* the hour key is built from datetime.now().hour
PatternStore(t) ==
    /\ Ready
    /\ pc[t] = "lp_store"
    /\ success_patterns' = PatStore(success_patterns, tmp[t].key, tmp[t].n + 1)
    /\ IF tmp[t].key[1] = "channel"
       THEN /\ tmp' = [tmp EXCEPT ![t] = [key |-> HourKey(CurrentHour), n |-> 0]]
            /\ pc' = [pc EXCEPT ![t] = "lp_load"]
       ELSE /\ tmp' = [tmp EXCEPT ![t] = NoTmp]
            /\ pc' = [pc EXCEPT ![t] = "la_trunc"]
    /\ UNCHANGED << networks, network_history, attacks, handshakes, mood,
                    epoch, real_attacks_enabled, start, appended, ticks,
                    clock, net, ai, att, success, cut, req, resp, before >>
    /\ UNCHANGED faults

\* if len(self.network_history[mac]) > 50: the slice [-50:] is built; with
\* nothing to cut, learn_from_attack and launch_attack return
LearnTrim(t) ==
    /\ Ready
    /\ pc[t] = "la_trunc"
    /\ IF Len(HistOf(network_history, net[t].mac)) > HistoryCap
       THEN /\ cut' = [cut EXCEPT ![t] = KeepRecent(HistOf(network_history, net[t].mac))]
            /\ pc' = [pc EXCEPT ![t] = "la_assign"]
            /\ UNCHANGED << net, ai, att, success, req, resp >>
       ELSE /\ pc' = [pc EXCEPT ![t] = AfterLaunch(t)]
            /\ net' = [net EXCEPT ![t] = NoNet]
            /\ ai' = [ai EXCEPT ![t] = FALSE]
            /\ att' = [att EXCEPT ![t] = 0]
            /\ success' = [success EXCEPT ![t] = FALSE]
            /\ req' = [req EXCEPT ![t] = NoReq]
            /\ resp' = [resp EXCEPT ![t] = NoResp]
            /\ UNCHANGED cut
    /\ UNCHANGED << networks, network_history, success_patterns, attacks,
                    handshakes, mood, epoch, real_attacks_enabled, start,
                    appended, ticks, clock, tmp, before >>
    /\ UNCHANGED faults

\* self.network_history[mac] = <the slice>; the calls return
LearnAssign(t) ==
    /\ Ready
    /\ pc[t] = "la_assign"
    /\ network_history' = HistPut(network_history, net[t].mac, cut[t])
    /\ pc' = [pc EXCEPT ![t] = AfterLaunch(t)]
    /\ net' = [net EXCEPT ![t] = NoNet]
    /\ ai' = [ai EXCEPT ![t] = FALSE]
    /\ att' = [att EXCEPT ![t] = 0]
    /\ success' = [success EXCEPT ![t] = FALSE]
    /\ cut' = [cut EXCEPT ![t] = << >>]
    /\ req' = [req EXCEPT ![t] = NoReq]
    /\ resp' = [resp EXCEPT ![t] = NoResp]
    /\ UNCHANGED << networks, success_patterns, attacks, handshakes,
                    mood, epoch, real_attacks_enabled, start, appended,
                    ticks, clock, tmp, before >>
    /\ UNCHANGED faults

(***************************************************************************)
(* The Flask handlers.  A handler thread is idle, serves a request and     *)
(* returns the response.  Sending the response touches nothing shared, so  *)
(* it is taken as the very next step: see Ready.                           *)
(***************************************************************************)
CommandKinds == {"ai-attack", "attack"}

\* api_status (and index): jsonify(self.get_status_data())
ApiStatus(t) ==
    /\ Ready
    /\ pc[t] = "idle"
    /\ req' = [req EXCEPT ![t] = [kind |-> "status", mac |-> ""]]
    /\ resp' = [resp EXCEPT ![t] = [status |-> "ok", body |-> get_status_data]]
    /\ before' = [before EXCEPT ![t] = shared]
    /\ pc' = [pc EXCEPT ![t] = "reply"]
    /\ UNCHANGED << networks, network_history, success_patterns, attacks,
                    handshakes, mood, epoch, real_attacks_enabled, start,
                    appended, ticks, clock, net, ai, att, success, tmp,
                    cut >>
    /\ UNCHANGED faults

\* api_networks: jsonify(networks_with_scores)
ApiNetworks(t) ==
    /\ Ready
    /\ pc[t] = "idle"
    /\ req' = [req EXCEPT ![t] = [kind |-> "networks", mac |-> ""]]
    /\ resp' = [resp EXCEPT ![t] = [status |-> "ok", body |-> api_networks]]
    /\ success_patterns' = api_networks_effect
    /\ before' = [before EXCEPT ![t] = shared]
    /\ pc' = [pc EXCEPT ![t] = "reply"]
    /\ UNCHANGED << networks, network_history, attacks,
                    handshakes, mood, epoch, real_attacks_enabled, start,
                    appended, ticks, clock, net, ai, att, success, tmp,
                    cut >>
    /\ UNCHANGED faults

\* api_ai_attack and api_attack up to the call of launch_attack: the lookup
\* `mac in self.networks`, the response the handler will return after the
\* call, and for an unknown mac the error response at once
ApiAttack(t) ==
    /\ Ready
    /\ pc[t] = "idle"
    /\ \E kind \in CommandKinds, mac \in Macs :
       /\ req' = [req EXCEPT ![t] = [kind |-> kind, mac |-> mac]]
       /\ IF Lookup(networks, mac) # NoNet
          THEN LET network == Lookup(networks, mac) IN
               /\ Started < start.attacks + start.budget
               /\ net' = [net EXCEPT ![t] = network]
               /\ ai' = [ai EXCEPT ![t] = (kind = "ai-attack")]
               /\ resp' = [resp EXCEPT ![t] =
                    IF kind = "ai-attack"
                    THEN [status |-> "ai_attack_launched",
                          ai_score |-> evaluate_target(network, network_history,
                                           success_patterns, CurrentHour)]
                    ELSE [status |-> "manual_attack_launched",
                          target |-> network.ssid]]
               /\ pc' = [pc EXCEPT ![t] = "la_begin"]
               /\ UNCHANGED before
          ELSE /\ resp' = [resp EXCEPT ![t] =
                    [status |-> "error", message |-> "Target not found"]]
               /\ pc' = [pc EXCEPT ![t] = "reply"]
               /\ before' = [before EXCEPT ![t] = shared]
               /\ UNCHANGED << net, ai >>
    /\ UNCHANGED << networks, network_history, success_patterns, attacks,
                    handshakes, mood, epoch, real_attacks_enabled, start,
                    appended, ticks, clock, att, success, tmp, cut >>
    /\ UNCHANGED faults

\* the response is sent; the thread is free again
Reply(t) ==
    /\ Running
    /\ pc[t] = "reply"
    /\ pc' = [pc EXCEPT ![t] = "idle"]
    /\ req' = [req EXCEPT ![t] = NoReq]
    /\ resp' = [resp EXCEPT ![t] = NoResp]
    /\ before' = [before EXCEPT ![t] = << >>]
    /\ UNCHANGED << networks, network_history, success_patterns, attacks,
                    handshakes, mood, epoch, real_attacks_enabled, start,
                    appended, ticks, clock, net, ai, att, success, tmp,
                    cut >>
    /\ UNCHANGED faults

(***************************************************************************)
(* The program                                                             *)
(***************************************************************************)
Next ==
    \/ MainLoop
    \/ ScanNetworks
    \/ AiAutoAttack
    \/ Report
    \/ LoopFault
    \/ Interrupt
    \/ Tick
    \/ \E t \in Threads : LaBegin(t)
    \/ \E t \in Threads : LaAttempt(t)
    \/ \E t \in Threads : LaStatus(t)
    \/ \E t \in Threads : LearnAppend(t)
    \/ \E t \in Threads : PatternLoad(t)
    \/ \E t \in Threads : PatternStore(t)
    \/ \E t \in Threads : LearnTrim(t)
    \/ \E t \in Threads : LearnAssign(t)
    \/ \E t \in Web : ApiStatus(t)
    \/ \E t \in Web : ApiNetworks(t)
    \/ \E t \in Web : ApiAttack(t)
    \/ \E t \in Web : Reply(t)

Spec == Init /\ [][Next]_vars

(***************************************************************************)
(* The attack paths alone, one launch_attack call deeper: the loop, the    *)
(* two commands and every step of launch_attack and learn_from_attack,     *)
(* without the status reads, the hour change, the fault of the progress    *)
(* log and the shutdown signal.                                            *)
(***************************************************************************)
RaceInit == WarmStart(<< WarmNet >>, MaxAttacks + 1)

RaceNext ==
    \/ MainLoop
    \/ ScanNetworks
    \/ AiAutoAttack
    \/ Report
    \/ \E t \in Threads : LaBegin(t)
    \/ \E t \in Threads : LaAttempt(t)
    \/ \E t \in Threads : LaStatus(t)
    \/ \E t \in Threads : LearnAppend(t)
    \/ \E t \in Threads : PatternLoad(t)
    \/ \E t \in Threads : PatternStore(t)
    \/ \E t \in Threads : LearnTrim(t)
    \/ \E t \in Threads : LearnAssign(t)
    \/ \E t \in Web : ApiAttack(t)
    \/ \E t \in Web : Reply(t)

RaceSpec == RaceInit /\ [][RaceNext]_vars

(***************************************************************************)
(* The loop left alone by the shutdown signal, for MaxLoops epochs from    *)
(* the warm state, with the handler threads serving reads and commands.    *)
(* The main thread is scheduled again and again: the interpreter hands the *)
(* GIL on at every switch interval, and nothing the loop body waits for    *)
(* waits for ever (the scan has timeout=30, the deauthentication           *)
(* timeout=15, the rest are sleeps of 1 to 20 seconds).  A handler thread  *)
(* that has built its response sends it.  No more is assumed of the        *)
(* handler threads, and nothing of the outcomes of scans and attacks.      *)
(***************************************************************************)
MaxLoops == 2

LoopInit == WarmFrom(WarmTable, 1, MaxLoops)

\* a step of the main thread
MainStep ==
    \/ MainLoop
    \/ ScanNetworks
    \/ AiAutoAttack
    \/ Report
    \/ LoopFault
    \/ LaBegin(Main)
    \/ LaAttempt(Main)
    \/ LaStatus(Main)
    \/ LearnAppend(Main)
    \/ PatternLoad(Main)
    \/ PatternStore(Main)
    \/ LearnTrim(Main)
    \/ LearnAssign(Main)

\* a step of a handler thread
WebStep ==
    \/ \E t \in Web : LaBegin(t)
    \/ \E t \in Web : LaAttempt(t)
    \/ \E t \in Web : LaStatus(t)
    \/ \E t \in Web : LearnAppend(t)
    \/ \E t \in Web : PatternLoad(t)
    \/ \E t \in Web : PatternStore(t)
    \/ \E t \in Web : LearnTrim(t)
    \/ \E t \in Web : LearnAssign(t)
    \/ \E t \in Web : ApiStatus(t)
    \/ \E t \in Web : ApiNetworks(t)
    \/ \E t \in Web : ApiAttack(t)
    \/ \E t \in Web : Reply(t)

LoopNext == MainStep \/ WebStep

LoopSpec ==
    /\ LoopInit
    /\ [][LoopNext]_vars
    /\ SF_vars(MainStep)
    /\ WF_vars(\E t \in Web : Reply(t))

(***************************************************************************)
(* The scoring engine on its own: evaluate_target over bounded inputs.    *)
(* The program has run for a while, one attack after the other.  In hour   *)
(* 22, on channel 1, m2 was captured MaxCount times and m1 was attacked n  *)
(* times, the first k of them with success.  Then m1 and m2 were seen on   *)
(* channel 6 and m2 was captured max(c, b) times more, the first c of them *)
(* on channel 6 and the last b of them in hour 23.  So the counters of     *)
(* channel 6 and of the current hour stand at c and b.  The network list   *)
(* is then read through /api/networks, which scores every network.         *)
(***************************************************************************)
Signals == {-100, -85, -84, -70, -69, -50, -49, -30}
Encryptions == {"Open", "WPA/WPA2"}

ScoredChannel == 6
PastChannel == 1
PastHour == 22
OtherNet == Cell("m2", "netB", ScoredChannel, -60, "WPA/WPA2")

\* the attack record of a finished manual attack
PastAttack(network, ok) ==
    [target |-> network.ssid, mac |-> network.mac, type |-> "Manual",
     status |-> IF ok THEN "handshake_captured" ELSE "failed",
     ai_controlled |-> FALSE, ai_score |-> 0, real_attack |-> FALSE]

PastHandshake(network) ==
    [network |-> network.ssid, mac |-> network.mac, ai_controlled |-> FALSE,
     real_capture |-> FALSE]

\* the network as it was when it was on channel ch
OnChannel(network, ch) == [network EXCEPT !.channel = ch]

ScoreStart(obs, n, k, c, b) ==
    LET more == IF c > b THEN c ELSE b
        now == (PastHour + 1) % 24
        otherLedger ==
           [i \in 1..(MaxCount + more) |->
              IF i <= MaxCount
              THEN AttemptRecord(OnChannel(OtherNet, PastChannel), TRUE, i, PastHour)
              ELSE AttemptRecord(
                     OnChannel(OtherNet, IF i - MaxCount <= c THEN ScoredChannel
                                         ELSE PastChannel),
                     TRUE, n + i,
                     IF i - MaxCount > more - b THEN now ELSE PastHour)]
        ledger == [i \in 1..n |->
                     AttemptRecord(OnChannel(obs, PastChannel), i <= k,
                                   MaxCount + i, PastHour)]
    IN
    /\ networks = << obs, OtherNet >>
    /\ network_history =
          [m \in {OtherNet.mac} \cup (IF n > 0 THEN {obs.mac} ELSE {}) |->
             IF m = OtherNet.mac THEN otherLedger ELSE ledger]
    /\ success_patterns =
          << [key |-> ChannelKey(PastChannel), n |-> MaxCount + k + more - c],
             [key |-> HourKey(PastHour), n |-> MaxCount + k + more - b] >>
          \o (IF c > 0 THEN << [key |-> ChannelKey(ScoredChannel), n |-> c] >> ELSE << >>)
          \o (IF b > 0 THEN << [key |-> HourKey(now), n |-> b] >> ELSE << >>)
    /\ attacks = [i \in 1..(MaxCount + n + more) |->
                    IF i <= MaxCount \/ i > MaxCount + n
                    THEN PastAttack(OtherNet, TRUE)
                    ELSE PastAttack(obs, i - MaxCount <= k)]
    /\ handshakes = [i \in 1..(MaxCount + k + more) |->
                       IF i <= MaxCount \/ i > MaxCount + k
                       THEN PastHandshake(OtherNet)
                       ELSE PastHandshake(obs)]
    /\ mood = "excited"
    /\ epoch = 2
    /\ real_attacks_enabled = FALSE
    /\ ticks = 0
    /\ clock = MaxCount + n + more
    /\ start = [attacks |-> MaxCount + n + more, epoch |-> 2, budget |-> 0,
                epochs |-> 0]
    /\ appended = [m \in Macs |->
                     IF m = OtherNet.mac
                     THEN [i \in 1..(MaxCount + more) |->
                             IF i <= MaxCount THEN i ELSE n + i]
                     ELSE [i \in 1..n |-> MaxCount + i]]
    /\ pc = [t \in Threads |-> IF t = Main THEN "m_report" ELSE "idle"]
    /\ net = [t \in Threads |-> NoNet]
    /\ ai = [t \in Threads |-> FALSE]
    /\ att = [t \in Threads |-> 0]
    /\ success = [t \in Threads |-> FALSE]
    /\ tmp = [t \in Threads |-> NoTmp]
    /\ cut = [t \in Threads |-> << >>]
    /\ req = [t \in Threads |-> NoReq]
    /\ resp = [t \in Threads |-> NoResp]
    /\ before = [t \in Threads |-> << >>]
    /\ faults = 0

ScoreInit ==
    \E signal \in Signals, encryption \in Encryptions,
       n \in 0..MaxLedger, c \in 0..MaxCount, b \in 0..MaxCount :
       \E k \in 0..n :
          ScoreStart(Cell("m1", "netA", ScoredChannel, signal, encryption), n, k, c, b)

ScoreNext ==
    \/ \E t \in Web : ApiNetworks(t)
    \/ \E t \in Web : Reply(t)

ScoreSpec == ScoreInit /\ [][ScoreNext]_vars

(***************************************************************************)
(* The selection policy on its own: ai_auto_attack over bounded tables.   *)
(* In its first epoch the loop found two networks and attacked neither;    *)
(* the second of the table, then on channel 1, was attacked by hand n      *)
(* times, the first k of them with success.  The second scan has just      *)
(* seen both again, and ai_auto_attack is about to run.                    *)
(***************************************************************************)
MaxTried == 2      \* manual attacks made on the second network

SelectSignals == {-90, -60, -40}

SelectStart(first, second, n, k) ==
    /\ networks = << first, second >>
    /\ network_history =
          [m \in (IF n > 0 THEN {second.mac} ELSE {}) |->
             [i \in 1..n |-> AttemptRecord(second, i <= k, i, PastHour)]]
    /\ success_patterns =
          IF k > 0 THEN << [key |-> ChannelKey(second.channel), n |-> k],
                           [key |-> HourKey(PastHour), n |-> k] >>
          ELSE << >>
    /\ attacks = [i \in 1..n |-> PastAttack(second, i <= k)]
    /\ handshakes = [i \in 1..k |-> PastHandshake(second)]
    /\ mood = IF n = 0 THEN "learning" ELSE IF n = k THEN "excited" ELSE "learning"
    /\ epoch = 2
    /\ real_attacks_enabled = FALSE
    /\ ticks = 0
    /\ clock = n
    /\ start = [attacks |-> n, epoch |-> 2, budget |-> 1, epochs |-> 0]
    /\ appended = [m \in Macs |-> IF m = second.mac THEN [i \in 1..n |-> i]
                                  ELSE << >>]
    /\ pc = [t \in Threads |-> IF t = Main THEN "m_decide" ELSE "idle"]
    /\ net = [t \in Threads |-> NoNet]
    /\ ai = [t \in Threads |-> FALSE]
    /\ att = [t \in Threads |-> 0]
    /\ success = [t \in Threads |-> FALSE]
    /\ tmp = [t \in Threads |-> NoTmp]
    /\ cut = [t \in Threads |-> << >>]
    /\ req = [t \in Threads |-> NoReq]
    /\ resp = [t \in Threads |-> NoResp]
    /\ before = [t \in Threads |-> << >>]
    /\ faults = 0

SelectInit ==
    \E m \in Macs, s1, s2 \in SelectSignals, e1, e2 \in Encryptions,
       n \in 0..MaxTried :
       \E k \in 0..n :
          LET other == CHOOSE x \in Macs : x # m IN
          SelectStart(Cell(m, "netA", ScoredChannel, s1, e1),
                      Cell(other, "netB", PastChannel, s2, e2), n, k)

SelectNext == AiAutoAttack

SelectSpec == SelectInit /\ [][SelectNext]_vars

(***************************************************************************)
(* Properties                                                              *)
(***************************************************************************)
Terminal == {"handshake_captured", "failed"}

\* the attempt of launch_attack is running in thread t
Attacking(t) == pc[t] = "la_attempt"

\* C1: at most one attack is in flight for any given network identifier:
\* no two threads are in the attempt of launch_attack on the same mac.
C1_OneAttackPerTarget ==
    \A t1, t2 \in Threads :
        (t1 # t2 /\ Attacking(t1) /\ Attacking(t2)) => net[t1].mac # net[t2].mac

\* C2: in every state the number of handshakes equals the number of attack
\* records whose status is 'handshake_captured'.
C2_NoTornSnapshot ==
    Len(handshakes) =
        Cardinality({ i \in 1..Len(attacks) : attacks[i].status = "handshake_captured" })

\* C3: once the process has stopped, no attack record is left 'launched'.
C3_StoppedLeavesNoLaunched ==
    pc[Main] = "stopped" => \A i \in 1..Len(attacks) : attacks[i].status # "launched"

\* C4: a record whose launch_attack call has returned is terminal: every
\* record that no running call holds has status 'handshake_captured' or
\* 'failed', also when the attempt was a real attack that failed.
C4_ReturnedAttackIsTerminal ==
    \A i \in 1..Len(attacks) :
        (\A t \in Threads : att[t] # i) => attacks[i].status \in Terminal

\* a real attack has failed and its launch_attack call has returned
C4_Witness ==
    \E i \in 1..Len(attacks) :
        /\ attacks[i].real_attack
        /\ attacks[i].status = "failed"
        /\ \A t \in Threads : att[t] # i

\* C5: a record is appended as 'launched', its status changes only from
\* 'launched' to a terminal status, nothing else of it ever changes, and no
\* record is removed.
C5_StatusOnlyForward ==
    [][ /\ Len(attacks') >= Len(attacks)
        /\ Len(attacks') <= Len(attacks) + 1
        /\ \A i \in 1..Len(attacks') :
              IF i > Len(attacks)
              THEN attacks'[i].status = "launched"
              ELSE /\ attacks'[i] = [attacks[i] EXCEPT !.status = attacks'[i].status]
                   /\ attacks'[i].status # attacks[i].status
                        => /\ attacks[i].status = "launched"
                           /\ attacks'[i].status \in Terminal ]_vars

\* two calls overlapped and ended differently: the record appended first
\* is captured, the one appended after it has failed
C5_Witness ==
    \E i, j \in 1..Len(attacks) :
        /\ i < j
        /\ attacks[i].status = "handshake_captured"
        /\ attacks[j].status = "failed"
        /\ \E t \in Threads : att[t] = i

LastN(s, n) == IF Len(s) > n THEN SubSeq(s, Len(s) - n + 1, Len(s)) ELSE s

\* C6: once the learning updates of a network are complete (no call of
\* launch_attack on it is under way or was cut short) its ledger has at
\* most 50 entries, and they are the 50 most recent attempts appended for
\* it, in the order they were appended.
C6_LedgerKeepsMostRecent ==
    \A m \in Macs :
        (\A t \in Threads : net[t].mac # m) =>
            LET h == HistOf(network_history, m) IN
            /\ Len(h) <= HistoryCap
            /\ [i \in 1..Len(h) |-> h[i].timestamp] = LastN(appended[m], HistoryCap)

\* C7: every counter of success_patterns is non-negative and no step of
\* any interleaving makes a counter smaller.
C7_CountersNeverDecrease ==
    [][ \A i \in 1..Len(success_patterns) :
            /\ success_patterns[i].n >= 0
            /\ PatGet(success_patterns', success_patterns[i].key)
                  >= success_patterns[i].n ]_vars

\* C8: a command naming a mac that is not in the network table is answered
\* with the error 'Target not found' and has changed nothing, and a command
\* that does start an attack names a mac of the table and attacks that one.
C8_UnknownTargetRejected ==
    \A t \in Web :
        /\ (pc[t] = "reply" /\ req[t].kind \in CommandKinds) =>
              /\ req[t].mac \notin NetKeys(networks)
              /\ resp[t] = [status |-> "error", message |-> "Target not found"]
              /\ shared = before[t]
              /\ att[t] = 0
        /\ (pc[t] # "reply" /\ req[t].kind \in CommandKinds) =>
              /\ req[t].mac \in NetKeys(networks)
              /\ net[t].mac = req[t].mac

\* a command for an unknown mac was rejected after attacks had been made
C8_Witness ==
    \E t \in Web :
        /\ pc[t] = "reply"
        /\ req[t].kind \in CommandKinds
        /\ resp[t].status = "error"
        /\ Len(networks) > 0
        /\ Len(attacks) > 0

\* C9: whatever the random draws, select_target returns a network of the
\* table that is not Open and has signal above -85, and returns none
\* exactly when the table has no such network; the attack the epoch loop
\* makes, and the record it appends, are for such a network.
C9_SelectsOnlyEligible ==
    /\ \A explore \in BOOLEAN, pick \in 1..Cardinality(Macs) :
          LET r == select_target(networks, network_history, success_patterns,
                                 CurrentHour, explore, pick)
              ok(n) == n.encryption # "Open" /\ n.signal > -85
          IN  /\ r = NoNet <=> ~ \E i \in 1..Len(networks) : ok(networks[i])
              /\ r # NoNet => /\ ok(r)
                              /\ \E i \in 1..Len(networks) : networks[i] = r
    /\ InLaunch(Main) =>
          /\ net[Main].encryption # "Open"
          /\ net[Main].signal > -85
          /\ net[Main] = Lookup(networks, net[Main].mac)
          /\ att[Main] # 0 => attacks[att[Main]].mac = net[Main].mac

\* the epoch loop attacks while the table also holds an ineligible network
C9_Witness ==
    /\ pc[Main] = "la_attempt"
    /\ \E i \in 1..Len(networks) :
          networks[i].encryption = "Open" \/ networks[i].signal <= -85

\* C10: a status read (api_status, api_networks) changes nothing, and what
\* it returned is what the same read returns from the state it left.
C10_ReadsAreIdempotent ==
    \A t \in Web :
        /\ (pc[t] = "reply" /\ req[t].kind = "status") =>
              /\ shared = before[t]
              /\ resp[t] = [status |-> "ok", body |-> get_status_data]
        /\ (pc[t] = "reply" /\ req[t].kind = "networks") =>
              /\ shared = before[t]
              /\ resp[t] = [status |-> "ok", body |-> api_networks]

\* the network list was read with networks known and attacks recorded
C10_Witness ==
    \E t \in Web :
        /\ pc[t] = "reply"
        /\ req[t].kind = "networks"
        /\ Len(networks) > 0
        /\ Len(attacks) > 0

\* the score evaluate_target gives network n in the current state
ScoreNow(n) == evaluate_target(n, network_history, success_patterns, CurrentHour)

\* thread t has just read the scored network list
ScoresRead(t) == pc[t] = "reply" /\ req[t].kind = "networks"

\* C11: for every network, ledger, counters and hour evaluate_target
\* returns an integer >= 1, the scoring leaves the counters as they were,
\* and scoring again gives the same value (also the value /api/networks
\* has just returned).
C11_ScoreAtLeastOne ==
    \A i \in 1..Len(networks) :
        LET n == networks[i]
            after == evaluate_effect(success_patterns, n, CurrentHour)
        IN  /\ ScoreNow(n) \in Int
            /\ ScoreNow(n) >= 1
            /\ after = success_patterns
            /\ evaluate_target(n, network_history, after, CurrentHour) = ScoreNow(n)
            /\ \A t \in Web : ScoresRead(t) => resp[t].body[i].ai_score = ScoreNow(n)

\* an Open network with weak signal, no ledger, no bonus and a channel
\* counter of 5 or more has been scored: the sum of the terms is below 1
C11_Witness ==
    \E t \in Web :
        /\ ScoresRead(t)
        /\ networks[1].encryption = "Open"
        /\ networks[1].signal <= -70
        /\ networks[1].mac \notin DOMAIN network_history
        /\ PatGet(success_patterns, ChannelKey(networks[1].channel)) >= 5
        /\ PatGet(success_patterns, HourKey(CurrentHour)) = 0

\* the reference formula of the scoring engine
RefScore(n) ==
    LET signalTerm == IF n.signal > -50 THEN 30
                      ELSE IF n.signal > -70 THEN 20 ELSE 10
        encTerm == IF n.encryption = "Open" THEN 0 ELSE 25
        h == IF n.mac \in DOMAIN network_history THEN network_history[n.mac]
             ELSE << >>
        attempts == Len(h)
        successes == Cardinality({ j \in 1..Len(h) : h[j].success })
        histTerm == IF attempts = 0 THEN 0
                    ELSE CHOOSE q \in 0..40 :
                            q * attempts <= 40 * successes
                            /\ 40 * successes < (q + 1) * attempts
        chan == ChannelKey(n.channel)
        hour == HourKey(CurrentHour)
        count(k) == IF \E j \in 1..Len(success_patterns) : success_patterns[j].key = k
                    THEN (CHOOSE e \in { success_patterns[j] : j \in 1..Len(success_patterns) } :
                             e.key = k).n
                    ELSE 0
        penalty == IF 2 * count(chan) <= 15 THEN 2 * count(chan) ELSE 15
        bonus == IF 3 * count(hour) <= 20 THEN 3 * count(hour) ELSE 20
        sum == signalTerm + encTerm + histTerm - penalty + bonus
    IN  IF sum >= 1 THEN sum ELSE 1

\* C12: evaluate_target equals the reference formula max(1, signalTerm +
\* encTerm + floor(40 * successes / attempts) - min(2 * channel counter, 15)
\* + min(3 * hour counter, 20)); a ledger of failures only adds 0, and a
\* channel counter of 10 subtracts 15.
C12_ScoreMatchesReference ==
    \A i \in 1..Len(networks) :
        /\ ScoreNow(networks[i]) = RefScore(networks[i])
        /\ \A t \in Web : ScoresRead(t) => resp[t].body[i].ai_score = RefScore(networks[i])

\* a network with five failed attempts and a channel counter of 10 has
\* been scored
C12_Witness ==
    \E t \in Web :
        /\ ScoresRead(t)
        /\ Len(HistOf(network_history, networks[1].mac)) = 5
        /\ Successes(HistOf(network_history, networks[1].mac)) = 0
        /\ PatGet(success_patterns, ChannelKey(networks[1].channel)) = 10

\* C13: of two networks that differ only in signal, scored with the same
\* ledger, counters and hour, the one with the greater signal scores at
\* least as much.
C13_ScoreMonotoneInSignal ==
    \A i \in 1..Len(networks), s \in Signals :
        LET other == [networks[i] EXCEPT !.signal = s] IN
        /\ s >= networks[i].signal => ScoreNow(other) >= ScoreNow(networks[i])
        /\ s <= networks[i].signal => ScoreNow(other) <= ScoreNow(networks[i])

\* a network at the threshold -70 has been scored, and one step more of
\* signal scores higher
C13_Witness ==
    \E t \in Web :
        /\ ScoresRead(t)
        /\ networks[1].signal = -70
        /\ ScoreNow(networks[1]) < ScoreNow([networks[1] EXCEPT !.signal = -69])

\* C14: a network scored as Open never scores more than the same network
\* scored as protected, with the same ledger, counters and hour.
C14_OpenScoresNoMore ==
    \A i \in 1..Len(networks) :
        ScoreNow([networks[i] EXCEPT !.encryption = "Open"])
           <= ScoreNow([networks[i] EXCEPT !.encryption = "WPA/WPA2"])

\* an Open network has been scored whose score is clamped to 1 and which
\* would score more were it protected
C14_Witness ==
    \E t \in Web :
        /\ ScoresRead(t)
        /\ networks[1].encryption = "Open"
        /\ ScoreNow(networks[1]) = 1
        /\ ScoreNow([networks[1] EXCEPT !.encryption = "WPA/WPA2"]) > 1

\* C15: without exploration select_target returns an eligible network
\* whose score is the greatest among the eligible ones, and of several
\* with that score the first in the order of the table; the same table
\* gives the same choice whatever the random index.
C15_ExploitPicksFirstBest ==
    LET ok(n) == n.encryption # "Open" /\ n.signal > -85
        E == { i \in 1..Len(networks) : ok(networks[i]) }
    IN  \A pick \in 1..Cardinality(Macs) :
           LET r == select_target(networks, network_history, success_patterns,
                                  CurrentHour, FALSE, pick)
           IN  IF E = {} THEN r = NoNet
               ELSE \E i \in E :
                      /\ r = networks[i]
                      /\ \A j \in E : ScoreNow(networks[j]) <= ScoreNow(networks[i])
                      /\ \A j \in E : j < i => ScoreNow(networks[j]) < ScoreNow(networks[i])

\* two eligible networks had the same score and the loop has chosen the
\* first of the table, here m2
C15_Witness ==
    /\ pc[Main] = "la_begin"
    /\ Len(networks) = 2
    /\ networks[1].mac = "m2"
    /\ \A i \in 1..2 : networks[i].encryption # "Open" /\ networks[i].signal > -85
    /\ ScoreNow(networks[1]) = ScoreNow(networks[2])
    /\ net[Main] = networks[1]

\* C16: best_channel of get_ai_stats is a channel key whose counter is the
\* greatest among the channel keys, or the 'none' value when
\* success_patterns is empty; it is never an hour key.
C16_BestChannelIsChannel ==
    LET best == get_ai_stats(network_history, success_patterns).best_channel
        channels == { j \in 1..Len(success_patterns) :
                         success_patterns[j].key[1] = "channel" }
    IN  IF Len(success_patterns) = 0 THEN best = NoKey
        ELSE \E i \in channels :
                /\ best = success_patterns[i].key
                /\ \A j \in channels : success_patterns[j].n <= success_patterns[i].n

\* C17: in every state each mac that has a ledger and each mac of an
\* attack record is a key of the network table.
C17_WritesOnlyForKnownMacs ==
    /\ \A m \in DOMAIN network_history : m \in NetKeys(networks)
    /\ \A i \in 1..Len(attacks) : attacks[i].mac \in NetKeys(networks)

\* m2 was attacked and has a ledger, and the loop has run its scan since
\* the start and holds m1 as the first output lists it
C17_Witness ==
    /\ "m2" \in DOMAIN network_history
    /\ \E i \in 1..Len(attacks) : attacks[i].mac = "m2"
    /\ pc[Main] = "m_decide"
    /\ Lookup(networks, "m1") = FirstScan[1]
    /\ epoch > start.epoch

\* thread t takes the step that leaves position `from`
Leaves(t, from) == pc[t] = from /\ pc'[t] \notin {from, "stopped"}

\* C18: a learning update appends one AttemptRecord carrying the outcome;
\* for a success it adds exactly one to the counter of the attempt's
\* channel and to the counter of the current hour and changes no other
\* counter; for a failure it changes no counter.
C18_UpdateAddsExactlyOne ==
    [][ \A t \in Threads :
          LET mac == net[t].mac
              counters(pat) == [k \in PatKeys(success_patterns) \cup PatKeys(success_patterns')
                                  |-> PatGet(pat, k)]
          IN
          /\ Leaves(t, "la_learn") =>
                /\ Len(HistOf(network_history', mac)) = Len(HistOf(network_history, mac)) + 1
                /\ SubSeq(HistOf(network_history', mac), 1, Len(HistOf(network_history, mac)))
                      = HistOf(network_history, mac)
                /\ HistOf(network_history', mac)[Len(HistOf(network_history', mac))].success
                      = success[t]
                /\ counters(success_patterns') = counters(success_patterns)
          /\ Leaves(t, "lp_load") => counters(success_patterns') = counters(success_patterns)
          /\ Leaves(t, "lp_store") =>
                /\ success[t]
                /\ tmp[t].key \in {ChannelKey(net[t].channel), HourKey(CurrentHour)}
                /\ counters(success_patterns') =
                      [counters(success_patterns) EXCEPT ![tmp[t].key] = @ + 1]
          /\ (Leaves(t, "la_trunc") \/ Leaves(t, "la_assign")) =>
                counters(success_patterns') = counters(success_patterns)
          /\ (~success[t] /\ Leaves(t, "la_learn")) => pc'[t] = "la_trunc" ]_vars

\* what C19 asks of the table `after` a scan of the table `nets`
Merged(nets, after, ok, output) ==
    LET named == { j \in 1..Len(output) : ok /\ output[j].ssid # "" }
        seen == { output[j].mac : j \in named }
        old == { nets[i].mac : i \in 1..Len(nets) }
        new == { after[i].mac : i \in 1..Len(after) }
        entry(t, m) == CHOOSE e \in { t[i] : i \in 1..Len(t) } : e.mac = m
    IN  /\ new = old \cup seen
        /\ Len(after) = Cardinality(new)
        /\ \A m \in old \ seen : entry(after, m) = entry(nets, m)
        /\ \A j \in named :
              (\A l \in named : l > j => output[l].mac # output[j].mac)
                 => entry(after, output[j].mac) = output[j]

\* C19: the scan step writes the network table only: the ledgers, the
\* counters, the attack log and the handshakes stay as they are; a mac the
\* scan lists (with a name) gets the listed observation, a mac it does not
\* list keeps its observation, and no mac is dropped.
C19_ScanWritesOnlyTable ==
    /\ [](\A ok \in BOOLEAN, output \in ScanOutputs :
             Merged(networks, scan_networks(networks, ok, output), ok, output))
    /\ [][ Leaves(Main, "m_scan") =>
             /\ UNCHANGED << network_history, success_patterns, attacks, handshakes >>
             /\ \E ok \in BOOLEAN, output \in ScanOutputs :
                   /\ networks' = scan_networks(networks, ok, output)
                   /\ Merged(networks, networks', ok, output) ]_vars

\* m1, which has a ledger, was seen again with another signal: the table
\* holds the new observation and the ledger is still there
C19_Witness ==
    /\ pc[Main] = "m_decide"
    /\ Len(HistOf(network_history, "m1")) >= HistoryCap
    /\ Lookup(networks, "m1").signal = -85

\* C20: the decision step of the epoch starts an attack only when the
\* table is not empty and holds an eligible network, and then on such a
\* network and as an AI attack; otherwise the loop goes on to its report.
\* The step itself appends no attack record and leaves the ledgers, the
\* counters, the handshakes and the mood as they are.
C20_DecisionLaunchesOnlyOnTarget ==
    [][ Leaves(Main, "m_decide") =>
          /\ pc'[Main] \in {"la_begin", "m_report"}
          /\ UNCHANGED << attacks, network_history, success_patterns, handshakes, mood >>
          /\ pc'[Main] = "la_begin" =>
                /\ Len(networks) > 0
                /\ \E i \in 1..Len(networks) :
                      /\ net'[Main] = networks[i]
                      /\ networks[i].encryption # "Open"
                      /\ networks[i].signal > -85
                /\ ai'[Main]
          /\ pc'[Main] = "m_report" => UNCHANGED << net, ai, att >> ]_vars

\* the table held an eligible network and the step has launched nothing
C20_Witness ==
    /\ pc[Main] = "m_report"
    /\ Len(attacks) = start.attacks
    /\ \A t \in Web : pc[t] = "idle"
    /\ \E i \in 1..Len(networks) :
          networks[i].encryption # "Open" /\ networks[i].signal > -85

\* a handler thread serves the manual command /api/attack/<mac>
Manual(t) == req[t].kind = "attack"

\* C21: a manual attack command for a mac of the network table is accepted
\* whatever the network's encryption and signal are and with no random
\* trigger: the handler goes on to launch_attack for that table entry.  The
\* attack record it appends has type Manual, is not AI controlled, carries
\* score 0 and names that mac; and the learning step appends to that mac's
\* ledger one attempt whose success flag is the outcome of this attack.
C21_ManualAttackAccepted ==
    /\ [][ \A t \in Web :
             (pc[t] = "idle" /\ pc'[t] # "idle" /\ req'[t].kind = "attack"
                /\ \E i \in 1..Len(networks) : networks[i].mac = req'[t].mac)
             => /\ pc'[t] = "la_begin"
                /\ \E i \in 1..Len(networks) :
                      networks[i].mac = req'[t].mac /\ net'[t] = networks[i]
                /\ ~ai'[t] ]_vars
    /\ [](\A t \in Web :
            (Manual(t) /\ InLaunch(t) /\ pc[t] # "la_begin")
            => /\ att[t] \in 1..Len(attacks)
               /\ attacks[att[t]].type = "Manual"
               /\ attacks[att[t]].ai_score = 0
               /\ ~attacks[att[t]].ai_controlled
               /\ attacks[att[t]].mac = req[t].mac)
    /\ [][ \A t \in Web :
             (Manual(t) /\ Leaves(t, "la_learn"))
             => LET mac == req[t].mac
                    old == HistOf(network_history, mac)
                    new == HistOf(network_history', mac)
                IN  /\ Len(new) = Len(old) + 1
                    /\ SubSeq(new, 1, Len(old)) = old
                    /\ new[Len(new)].success =
                          (attacks[att[t]].status = "handshake_captured")
                    /\ new[Len(new)].channel = net[t].channel ]_vars

\* a manual attack on an open network has been carried out and its attempt
\* is the newest entry of that network's ledger
C21_Witness ==
    \E t \in Web :
       /\ Manual(t)
       /\ pc[t] = "la_trunc"
       /\ net[t].encryption = "Open"
       /\ attacks[att[t]].type = "Manual"
       /\ Len(HistOf(network_history, net[t].mac)) > 0

\* C22: the epoch counter changes only in the step at the head of a main
\* loop iteration, every such step adds exactly one to it, and no other
\* step changes it: not a scan (failed or not), not a decision that
\* launches nothing, not the fault handler at the end of an iteration, not
\* the shutdown signal and no step of a handler thread.  So it never
\* decreases, and since the loop was entered it counts the iterations begun
\* (the fault handler has run at most once in each of them).
C22_EpochCountsIterations ==
    /\ [][ /\ epoch' >= epoch
           /\ Leaves(Main, "m_loop") => (pc'[Main] = "m_scan" /\ epoch' = epoch + 1)
           /\ epoch' # epoch => (Leaves(Main, "m_loop") /\ epoch' = epoch + 1)
           /\ (\E t \in Web : pc'[t] # pc[t]) => epoch' = epoch
           /\ faults' # faults => (epoch' = epoch /\ pc'[Main] = "m_loop") ]_vars
    /\ [](faults <= epoch - start.epoch)

\* an iteration has ended in the fault handler and has been counted once
C22_Witness ==
    /\ faults = 1
    /\ epoch = start.epoch + 1
    /\ pc[Main] = "m_loop"

\* C23: with no shutdown signal the main loop never terminates, and
\* whatever happens inside an epoch (the scan fails, the attack fails, the
\* fault handler of the loop runs) the next epoch starts: from every epoch
\* below the horizon the counter reaches the next one.
C23_LoopGoesOn ==
    /\ [](pc[Main] # "stopped")
    /\ \A e \in 4..(4 + MaxLoops - 1) : (epoch = e) ~> (epoch = e + 1)
    /\ \A e \in 4..(4 + MaxLoops - 1) :
          (epoch = e /\ faults > 0) ~> (epoch = e + 1)
    /\ \A e \in 4..(4 + MaxLoops - 1) :
          (epoch = e /\ pc[Main] = "la_learn" /\ ~success[Main]) ~> (epoch = e + 1)

\* the fault handler has run in one epoch and the next epoch has started
C23_Witness ==
    /\ faults > 0
    /\ epoch = start.epoch + MaxLoops
    /\ pc[Main] # "m_loop"

\* the sum of the channel counters among the first i entries
RECURSIVE ChannelSum(_, _)
ChannelSum(pat, i) ==
    IF i = 0 THEN 0
    ELSE (IF pat[i].key[1] = "channel" THEN pat[i].n ELSE 0) + ChannelSum(pat, i - 1)

\* attack records that ended with status 'handshake_captured'
CapturedAttacks ==
    Cardinality({ i \in 1..Len(attacks) : attacks[i].status = "handshake_captured" })

\* successful attempts on channel c that the ledgers hold
LedgerCaptures(c) ==
    LET on(h) == Cardinality({ i \in 1..Len(h) : h[i].success /\ h[i].channel = c })
    IN  SumOver(on, network_history, DOMAIN network_history)

\* C24: while the program runs and no call of launch_attack is under way,
\* the channel counters together count the attacks that ended with status
\* 'handshake_captured'; and when the ledgers still hold every one of those
\* successes, the counter of each channel equals the number of successful
\* attempts on that channel.
C24_NoSuccessLost ==
    (Running /\ \A t \in Threads : ~InLaunch(t)) =>
        /\ ChannelSum(success_patterns, Len(success_patterns)) = CapturedAttacks
        /\ SumOver(Successes, network_history, DOMAIN network_history) = CapturedAttacks
             => \A c \in { k[2] : k \in { x \in PatKeys(success_patterns) : x[1] = "channel" } }
                       \cup { networks[i].channel : i \in 1..Len(networks) } :
                   PatGet(success_patterns, ChannelKey(c)) = LedgerCaptures(c)

\* C25: once no learning update for a mac is under way, no attempt
\* appended for it has been lost: while fewer than 50 attempts have been
\* appended the ledger holds every one of them, and from then on it holds
\* 50 entries, the 50 appended last (so the newest one is always there).
C25_NoAttemptLost ==
    \A m \in Macs :
        (\A t \in Threads : ~(InLaunch(t) /\ net[t].mac = m)) =>
            LET h == HistOf(network_history, m)
                held == { h[i].timestamp : i \in 1..Len(h) }
                all == appended[m]
                first == IF Len(all) > HistoryCap THEN Len(all) - HistoryCap + 1 ELSE 1
            IN  /\ held = { all[i] : i \in first..Len(all) }
                /\ Len(h) = Len(all) - first + 1
                /\ Len(all) > 0 => all[Len(all)] \in held

=============================================================================
